---- MODULE Spec2Model ----
(***************************************************************************)
(* Room availability and booking admission of the hotel-booking backend.   *)
(*                                                                         *)
(* The store is a relational database read at READ COMMITTED: a statement  *)
(* sees the committed rows plus the uncommitted rows of its own session.   *)
(* Every request runs in its own session (api/dependencies.py get_db), so  *)
(* a request is a process whose awaits are the steps of the model.         *)
(***************************************************************************)
EXTENDS Integers, FiniteSets, Sequences, TLC

VARIABLES
    rooms,              \* table rooms: id -> [hotel_id, price, quantity]
    bookings,           \* table bookings: the committed rows
    next_id,            \* sequence behind bookings.id
    pc,                 \* per request: position in BookingService.add_booking
    request,            \* per request: user_id and the BookingAddRequest body;
                        \* after a refusal, the call the client may send again
    room,               \* per request: the Room read by rooms.get_one
    rooms_ids_to_book,  \* per request: result of the availability query
    new_booking,        \* per request: rows inserted and not yet committed
    outcome,            \* per request: what the caller received
    rooms_available,    \* the last room listing: its arguments and result
    data,               \* per request: the "data" field of the response body
    users,              \* table users: the committed rows
    users_id_seq,       \* sequence behind users.id
    resp_register,      \* the last response of POST /auth/register
    rooms_id_seq,       \* sequence behind rooms.id
    rooms_facilities,   \* table rooms_facilities: the committed rows
    create_room_call    \* the session of the create_room request in progress

(* The tables and sessions of registration and of room creation *)
registration_vars == <<users, users_id_seq, resp_register>>
create_room_vars == <<rooms_id_seq, rooms_facilities, create_room_call>>

vars == <<rooms, bookings, next_id, pc, request, room, rooms_ids_to_book,
          new_booking, outcome, rooms_available, data, registration_vars,
          create_room_vars>>

----------------------------------------------------------------------------
(* Bounds of the model *)

MaxDay == 3
MaxQueryDay == 5
MaxRows == 2
MaxId == 2

(* Calendar days, and the date ranges a caller may send (date_from < date_to) *)
Days == 0..MaxDay
Ranges == {r \in Days \X Days : r[1] < r[2]}

(* The date pairs a request body can carry: two dates in any order *)
DatePairs == Days \X Days

(* The days and ranges of the room listing, wide enough for a query that
   starts inside one booking and ends inside a later one *)
QueryDays == 0..MaxQueryDay
QueryRanges == {r \in QueryDays \X QueryDays : r[1] < r[2]}

(* Two concurrent clients; client p is authenticated as user p *)
Procs == {1, 2}

(* The client of the sequential runs *)
SeqClient == 1

(* Rooms 1 and 2 belong to hotel 1, room 3 to hotel 2; id 4 is no room *)
RoomIds == {1, 2, 3}
MissingRoomId == 4
HotelOf == <<1, 1, 2>>
PriceOf == <<100, 150, 200>>
QuantityOf == <<1, 2, 0>>

(* The hotels, and the prices an administrator sets *)
HotelIds == {HotelOf[id] : id \in RoomIds}
Prices == {PriceOf[1], PriceOf[2]}

None == 0

(* The facilities in the store; id 3 is no facility *)
FacilityIds == {1, 2}
MissingFacilityId == 3

(* A hotel id that is no hotel, and an id that is no index *)
MissingHotelId == 3
WrongIndex == 0

(* Email candidates as (local part, domain); "abcde" has no domain *)
Emails == {<<"test1", "test1.com">>, <<"test2", "test2.com">>,
           <<"test3", "test3.com">>, <<"abcde", "">>}

(* Passwords by their length *)
PasswordLengths == {7, 8}

NoResponse == [email |-> <<"", "">>, status_code |-> 0]
NoCall == [pc |-> "idle", hotel_id |-> None, facilities_ids |-> {},
           room |-> {}, rooms_facilities_data |-> {}, outcome |-> "none"]
NoRoom == [hotel_id |-> None, price |-> 0, quantity |-> 0]
NoListing == [hotel_id |-> None, date_from |-> 0, date_to |-> 0, rooms_ids |-> {}]
NoRequest == [user_id |-> None, room_id |-> None, date_from |-> 0, date_to |-> 0]

----------------------------------------------------------------------------
(* repositories/utils.py: the availability query *)

(* A filter with strict comparisons, as the glossary's overlap would be *)
overlap_filter_strict(b, date_from, date_to) ==
    b.date_from < date_to /\ b.date_to > date_from

(* A filter that counts only the bookings that start inside the range *)
overlap_filter_starting_inside(b, date_from, date_to) ==
    b.date_from >= date_from /\ b.date_from <= date_to

(* WHERE bookings.date_from <= :date_to AND bookings.date_to >= :date_from *)
overlap_filter(b, date_from, date_to) ==
    b.date_from <= date_to /\ b.date_to >= date_from

(* The count without its GROUP BY: every group gets the count of all rows *)
rooms_count_ungrouped(table, date_from, date_to) ==
    LET filtered == {b \in table : overlap_filter(b, date_from, date_to)}
    IN  {[room_id |-> g, rooms_reserved |-> Cardinality(filtered)] :
            g \in {b.room_id : b \in filtered}}

\* CTE rooms_count: SELECT room_id, count(star) ... GROUP BY room_id
rooms_count(table, date_from, date_to) ==
    LET filtered == {b \in table : overlap_filter(b, date_from, date_to)}
        groups == {b.room_id : b \in filtered}
    IN  {[room_id |-> g,
          rooms_reserved |-> Cardinality({b \in filtered : b.room_id = g})] :
            g \in groups}

(* The outer join without its ON condition: a room is given the count of
   whichever group there is *)
rooms_reserved_unjoined(table, id, date_from, date_to) ==
    LET joined == rooms_count(table, date_from, date_to)
    IN  IF joined = {} THEN 0 ELSE (CHOOSE c \in joined : TRUE).rooms_reserved

(* coalesce(rooms_count.rooms_reserved, 0) of the row joined to room id *)
rooms_reserved(table, id, date_from, date_to) ==
    LET joined == {c \in rooms_count(table, date_from, date_to) : c.room_id = id}
    IN  IF joined = {} THEN 0 ELSE (CHOOSE c \in joined : TRUE).rooms_reserved

(* CTE rooms_left_result: rooms LEFT OUTER JOIN rooms_count,
   quantity - coalesce(rooms_reserved, 0) *)
rooms_left_result(rooms_table, table, date_from, date_to) ==
    {[rooms_id |-> id,
      rooms_left |-> rooms_table[id].quantity
                        - rooms_reserved(table, id, date_from, date_to)] :
        id \in DOMAIN rooms_table}

(* rooms_left of one room in rooms_left_result *)
rooms_left(rooms_table, table, id, date_from, date_to) ==
    (CHOOSE row \in rooms_left_result(rooms_table, table, date_from, date_to) :
        row.rooms_id = id).rooms_left

(* The room ids of every hotel: the hotel filter left out *)
rooms_ids_for_hotel_unfiltered(rooms_table, hotel_id) ==
    DOMAIN rooms_table

(* The hotel filter applied even when no hotel is given *)
rooms_ids_for_hotel_always_filtered(rooms_table, hotel_id) ==
    {id \in DOMAIN rooms_table : rooms_table[id].hotel_id = hotel_id}

(* SELECT id FROM rooms [WHERE hotel_id = :hotel_id] *)
rooms_ids_for_hotel(rooms_table, hotel_id) ==
    IF hotel_id = None THEN DOMAIN rooms_table
    ELSE {id \in DOMAIN rooms_table : rooms_table[id].hotel_id = hotel_id}

(* The threshold rooms_left >= 0 in place of rooms_left > 0 *)
rooms_ids_for_booking_zero_left(rooms_table, table, date_from, date_to, hotel_id) ==
    {row.rooms_id : row \in
        {x \in rooms_left_result(rooms_table, table, date_from, date_to) :
            /\ x.rooms_left >= 0
            /\ x.rooms_id \in rooms_ids_for_hotel(rooms_table, hotel_id)}}

(* SELECT rooms_id FROM rooms_left_result
   WHERE rooms_left > 0 AND rooms_id IN (rooms_ids_for_hotel) *)
rooms_ids_for_booking(rooms_table, table, date_from, date_to, hotel_id) ==
    {row.rooms_id : row \in
        {x \in rooms_left_result(rooms_table, table, date_from, date_to) :
            /\ x.rooms_left > 0
            /\ x.rooms_id \in rooms_ids_for_hotel(rooms_table, hotel_id)}}

----------------------------------------------------------------------------
(* The rows a session sees: committed rows and its own uncommitted inserts *)
visible(p) == bookings \cup new_booking[p]

InFlight == {p \in Procs : pc[p] \in {"get_room", "check", "insert", "commit"}}

Init ==
    /\ rooms = [id \in RoomIds |->
                   [hotel_id |-> HotelOf[id], price |-> PriceOf[id],
                    quantity |-> QuantityOf[id]]]
    /\ bookings = {}
    /\ next_id = 1
    /\ pc = [p \in Procs |-> "idle"]
    /\ request = [p \in Procs |-> NoRequest]
    /\ room = [p \in Procs |-> NoRoom]
    /\ rooms_ids_to_book = [p \in Procs |-> {}]
    /\ new_booking = [p \in Procs |-> {}]
    /\ outcome = [p \in Procs |-> "none"]
    /\ rooms_available = NoListing
    /\ data = [p \in Procs |-> {}]
    /\ users = {}
    /\ users_id_seq = 1
    /\ resp_register = NoResponse
    /\ rooms_id_seq = Cardinality(RoomIds) + 1
    /\ rooms_facilities = {}
    /\ create_room_call = NoCall

----------------------------------------------------------------------------
(* api/bookings.py add_booking and services/bookings.py
   BookingService.add_booking, one action per await that reaches the store *)

(* rooms.get_one(id=room_id): the row, or ObjectNotFoundException *)
get_one(rooms_table, id) ==
    IF id \in DOMAIN rooms_table THEN rooms_table[id] ELSE NoRoom

(* exceptions.py: the status code of the response for each outcome *)
status_code(o) ==
    CASE o = "Admitted" -> 200
      [] o = "RoomNotFound" -> 404
      [] o = "AllRoomsAreBooked" -> 409
      [] OTHER -> 500

(* The ids handed out and the requests that may still take one stay
   below cap *)
ids_left(cap) == (next_id - 1) + Cardinality(InFlight) < cap

(* A client sends POST /bookings: a session is opened for the request *)
post_booking(p, room_id, date_from, date_to) ==
    /\ pc[p] \in {"idle", "done"}
    /\ request' = [request EXCEPT ![p] =
            [user_id |-> p, room_id |-> room_id,
             date_from |-> date_from, date_to |-> date_to]]
    /\ outcome' = [outcome EXCEPT ![p] = "none"]
    /\ data' = [data EXCEPT ![p] = {}]
    /\ pc' = [pc EXCEPT ![p] = "get_room"]
    /\ UNCHANGED <<registration_vars, create_room_vars>>
    /\ UNCHANGED <<rooms, bookings, next_id, room, rooms_ids_to_book,
                   new_booking, rooms_available>>

(* A client whose call was refused sends the same call again; until the
   new answer arrives it still holds the answer to the previous attempt *)
retry_booking(p) ==
    /\ pc[p] = "done"
    /\ request[p] # NoRequest
    /\ pc' = [pc EXCEPT ![p] = "get_room"]
    /\ UNCHANGED <<registration_vars, create_room_vars>>
    /\ UNCHANGED <<rooms, bookings, next_id, request, room, rooms_ids_to_book,
                   new_booking, outcome, rooms_available, data>>

(* The room lookup that raises only for a call not refused before *)
add_booking_get_room_unless_retried(p) ==
    /\ pc[p] = "get_room"
    /\ IF get_one(rooms, request[p].room_id) = NoRoom /\ outcome[p] # "RoomNotFound"
       THEN /\ outcome' = [outcome EXCEPT ![p] = "RoomNotFound"]
            /\ pc' = [pc EXCEPT ![p] = "done"]
            /\ UNCHANGED <<room, request>>
       ELSE /\ pc' = [pc EXCEPT ![p] = "check"]
            /\ room' = [room EXCEPT ![p] = get_one(rooms, request[p].room_id)]
            /\ UNCHANGED <<outcome, request>>
    /\ UNCHANGED <<registration_vars, create_room_vars>>
    /\ UNCHANGED <<rooms, bookings, next_id, rooms_ids_to_book, new_booking,
                   rooms_available, data>>

(* The room lookup without its except clause: a missing room goes on to
   the availability check *)
add_booking_get_room_unchecked(p) ==
    /\ pc[p] = "get_room"
    /\ pc' = [pc EXCEPT ![p] = "check"]
    /\ room' = [room EXCEPT ![p] = get_one(rooms, request[p].room_id)]
    /\ UNCHANGED <<registration_vars, create_room_vars>>
    /\ UNCHANGED <<rooms, bookings, next_id, request, outcome,
                   rooms_ids_to_book, new_booking, rooms_available, data>>

(* The service resolves the room and its hotel and takes room.price.  A
   missing room ends the request with RoomNotFoundHTTPException; the client
   holds on to the refused call. *)
add_booking_get_room(p) ==
    /\ pc[p] = "get_room"
    /\ IF get_one(rooms, request[p].room_id) = NoRoom
       THEN /\ outcome' = [outcome EXCEPT ![p] = "RoomNotFound"]
            /\ pc' = [pc EXCEPT ![p] = "done"]
            /\ UNCHANGED <<room, request>>
       ELSE /\ pc' = [pc EXCEPT ![p] = "check"]
            /\ room' = [room EXCEPT ![p] = get_one(rooms, request[p].room_id)]
            /\ UNCHANGED <<outcome, request>>
    /\ UNCHANGED <<registration_vars, create_room_vars>>
    /\ UNCHANGED <<rooms, bookings, next_id, rooms_ids_to_book, new_booking,
                   rooms_available, data>>

(* The availability check whose refusal is swallowed by the service: the
   request ends as a success with nothing inserted *)
add_booking_check_swallowing(p) ==
    /\ pc[p] = "check"
    /\ LET ids == rooms_ids_for_booking(rooms, visible(p),
                      request[p].date_from, request[p].date_to,
                      room[p].hotel_id)
       IN  IF request[p].room_id \in ids
           THEN /\ rooms_ids_to_book' = [rooms_ids_to_book EXCEPT ![p] = ids]
                /\ pc' = [pc EXCEPT ![p] = "insert"]
                /\ UNCHANGED <<outcome, room, request>>
           ELSE /\ rooms_ids_to_book' = [rooms_ids_to_book EXCEPT ![p] = {}]
                /\ outcome' = [outcome EXCEPT ![p] = "Admitted"]
                /\ pc' = [pc EXCEPT ![p] = "done"]
                /\ room' = [room EXCEPT ![p] = NoRoom]
                /\ UNCHANGED request
    /\ UNCHANGED <<registration_vars, create_room_vars>>
    /\ UNCHANGED <<rooms, bookings, next_id, new_booking, rooms_available, data>>

(* repositories/bookings.py add_booking: run the availability query for the
   room's hotel; a room outside the result raises AllRoomsAreBookedException,
   which the service turns into AllRoomsAreBookedHTTPException *)
add_booking_check(p) ==
    /\ pc[p] = "check"
    /\ LET ids == rooms_ids_for_booking(rooms, visible(p),
                      request[p].date_from, request[p].date_to,
                      room[p].hotel_id)
       IN  IF request[p].room_id \in ids
           THEN /\ rooms_ids_to_book' = [rooms_ids_to_book EXCEPT ![p] = ids]
                /\ pc' = [pc EXCEPT ![p] = "insert"]
                /\ UNCHANGED <<outcome, room, request>>
           ELSE /\ rooms_ids_to_book' = [rooms_ids_to_book EXCEPT ![p] = {}]
                /\ outcome' = [outcome EXCEPT ![p] = "AllRoomsAreBooked"]
                /\ pc' = [pc EXCEPT ![p] = "done"]
                /\ room' = [room EXCEPT ![p] = NoRoom]
                /\ UNCHANGED request
    /\ UNCHANGED <<registration_vars, create_room_vars>>
    /\ UNCHANGED <<rooms, bookings, next_id, new_booking, rooms_available, data>>

(* An insert that writes the two dates into each other's column *)
add_swapped_dates(p) ==
    /\ pc[p] = "insert"
    /\ new_booking' = [new_booking EXCEPT ![p] =
            {[id |-> next_id, user_id |-> request[p].user_id,
              room_id |-> request[p].room_id,
              date_from |-> request[p].date_to,
              date_to |-> request[p].date_from,
              price |-> room[p].price]}]
    /\ next_id' = next_id + 1
    /\ pc' = [pc EXCEPT ![p] = "commit"]
    /\ UNCHANGED <<registration_vars, create_room_vars>>
    /\ UNCHANGED <<rooms, bookings, request, room, rooms_ids_to_book, outcome,
                   rooms_available, data>>

(* BaseRepository.add: INSERT ... RETURNING inside the session's transaction *)
add(p) ==
    /\ pc[p] = "insert"
    /\ new_booking' = [new_booking EXCEPT ![p] =
            {[id |-> next_id, user_id |-> request[p].user_id,
              room_id |-> request[p].room_id,
              date_from |-> request[p].date_from,
              date_to |-> request[p].date_to,
              price |-> room[p].price]}]
    /\ next_id' = next_id + 1
    /\ pc' = [pc EXCEPT ![p] = "commit"]
    /\ UNCHANGED <<registration_vars, create_room_vars>>
    /\ UNCHANGED <<rooms, bookings, request, room, rooms_ids_to_book, outcome,
                   rooms_available, data>>

(* BookingService.add_booking has no return statement: whatever row the
   repository returned, the handler gets None and answers with no data *)
add_booking_returns(rows) == {}

(* DBManager.commit: the session's rows become visible to every session;
   the handler returns and the session is closed *)
commit(p) ==
    /\ pc[p] = "commit"
    /\ bookings' = bookings \cup new_booking[p]
    /\ new_booking' = [new_booking EXCEPT ![p] = {}]
    /\ outcome' = [outcome EXCEPT ![p] = "Admitted"]
    /\ pc' = [pc EXCEPT ![p] = "done"]
    /\ rooms_ids_to_book' = [rooms_ids_to_book EXCEPT ![p] = {}]
    /\ room' = [room EXCEPT ![p] = NoRoom]
    /\ request' = [request EXCEPT ![p] = NoRequest]
    /\ data' = [data EXCEPT ![p] = add_booking_returns(new_booking[p])]
    /\ UNCHANGED <<registration_vars, create_room_vars>>
    /\ UNCHANGED <<rooms, next_id, rooms_available>>

(* An exit that commits the session where it should roll it back *)
aexit_committing(p) ==
    /\ pc[p] = "commit"
    /\ bookings' = bookings \cup new_booking[p]
    /\ new_booking' = [new_booking EXCEPT ![p] = {}]
    /\ outcome' = [outcome EXCEPT ![p] = "Failed"]
    /\ pc' = [pc EXCEPT ![p] = "done"]
    /\ rooms_ids_to_book' = [rooms_ids_to_book EXCEPT ![p] = {}]
    /\ room' = [room EXCEPT ![p] = NoRoom]
    /\ UNCHANGED <<registration_vars, create_room_vars>>
    /\ UNCHANGED <<rooms, next_id, request, rooms_available, data>>

(* An exit that closes the session and leaves its uncommitted rows *)
aexit_without_rollback(p) ==
    /\ pc[p] = "commit"
    /\ outcome' = [outcome EXCEPT ![p] = "Failed"]
    /\ pc' = [pc EXCEPT ![p] = "done"]
    /\ rooms_ids_to_book' = [rooms_ids_to_book EXCEPT ![p] = {}]
    /\ room' = [room EXCEPT ![p] = NoRoom]
    /\ UNCHANGED <<registration_vars, create_room_vars>>
    /\ UNCHANGED <<rooms, bookings, next_id, request, rooms_available, data,
                   new_booking>>

(* The session's commit fails or the handler is cancelled after the insert
   has run: the exception leaves get_db's async with, DBManager.__aexit__
   rolls the session back and closes it, and the caller gets a failure *)
aexit(p) ==
    /\ pc[p] = "commit"
    /\ new_booking' = [new_booking EXCEPT ![p] = {}]
    /\ outcome' = [outcome EXCEPT ![p] = "Failed"]
    /\ pc' = [pc EXCEPT ![p] = "done"]
    /\ rooms_ids_to_book' = [rooms_ids_to_book EXCEPT ![p] = {}]
    /\ room' = [room EXCEPT ![p] = NoRoom]
    /\ UNCHANGED <<registration_vars, create_room_vars>>
    /\ UNCHANGED <<rooms, bookings, next_id, request, rooms_available, data>>

(* DBManager.commit takes effect in the store and its acknowledgement is
   lost (the connection drops, or the caller stops waiting): the rows are
   committed and the caller gets a failure *)
commit_unacknowledged(p) ==
    /\ pc[p] = "commit"
    /\ bookings' = bookings \cup new_booking[p]
    /\ new_booking' = [new_booking EXCEPT ![p] = {}]
    /\ outcome' = [outcome EXCEPT ![p] = "Failed"]
    /\ pc' = [pc EXCEPT ![p] = "done"]
    /\ rooms_ids_to_book' = [rooms_ids_to_book EXCEPT ![p] = {}]
    /\ room' = [room EXCEPT ![p] = NoRoom]
    /\ UNCHANGED <<registration_vars, create_room_vars>>
    /\ UNCHANGED <<rooms, next_id, request, rooms_available, data>>

(* A delete that refuses to remove the only booking of a room *)
delete_unless_last_of_room(id) ==
    /\ \E b \in bookings :
          /\ b.id = id
          /\ \E other \in bookings : other.room_id = b.room_id /\ other.id # id
    /\ bookings' = {b \in bookings : b.id # id}
    /\ UNCHANGED <<registration_vars, create_room_vars>>
    /\ UNCHANGED <<rooms, next_id, pc, request, room, rooms_ids_to_book,
                   new_booking, outcome, rooms_available, data>>

(* BaseRepository.delete(id=...) on bookings, committed by its caller *)
delete(id) ==
    /\ \E b \in bookings : b.id = id
    /\ bookings' = {b \in bookings : b.id # id}
    /\ UNCHANGED <<registration_vars, create_room_vars>>
    /\ UNCHANGED <<rooms, next_id, pc, request, room, rooms_ids_to_book,
                   new_booking, outcome, rooms_available, data>>

(* BaseRepository.add called on the bookings repository itself, as
   test_add_booking_crud does, and committed by its caller: INSERT ...
   RETURNING with no availability query before it *)
bookings_add(user_id, room_id, date_from, date_to, price) ==
    /\ room_id \in DOMAIN rooms
    /\ bookings' = bookings \cup
            {[id |-> next_id, user_id |-> user_id, room_id |-> room_id,
              date_from |-> date_from, date_to |-> date_to, price |-> price]}
    /\ next_id' = next_id + 1
    /\ UNCHANGED <<registration_vars, create_room_vars>>
    /\ UNCHANGED <<rooms, pc, request, room, rooms_ids_to_book, new_booking,
                   outcome, rooms_available, data>>

(* A read that leaves the filter out of its SELECT *)
get_one_or_none_unfiltered(table, id) == table

(* BaseRepository.get_one_or_none(id=...) on bookings: the rows selected by
   the filter, at most one as id is the primary key; no row is None *)
get_one_or_none(table, id) == {b \in table : b.id = id}

(* BaseRepository.edit called on the bookings repository with id = :id, as
   test_add_booking_crud does, and committed by its caller: UPDATE bookings
   SET user_id, room_id, date_from, date_to, price WHERE id = :id *)
bookings_edit(id, user_id, room_id, date_from, date_to, price) ==
    /\ room_id \in DOMAIN rooms
    /\ \E b \in bookings : b.id = id
    /\ bookings' = {IF b.id = id
                    THEN [id |-> id, user_id |-> user_id, room_id |-> room_id,
                          date_from |-> date_from, date_to |-> date_to,
                          price |-> price]
                    ELSE b : b \in bookings}
    /\ UNCHANGED <<registration_vars, create_room_vars>>
    /\ UNCHANGED <<rooms, next_id, pc, request, room, rooms_ids_to_book,
                   new_booking, outcome, rooms_available, data>>

(* A room edit that also rewrites the price of the room's bookings *)
edit_room_repricing(hotel_id, room_id, price, quantity) ==
    /\ hotel_id > 0 /\ room_id > 0
    /\ hotel_id \in HotelIds
    /\ room_id \in DOMAIN rooms
    /\ rooms' = [rooms EXCEPT ![room_id] =
            [hotel_id |-> hotel_id, price |-> price, quantity |-> quantity]]
    /\ bookings' = {IF b.room_id = room_id THEN [b EXCEPT !.price = price] ELSE b :
                        b \in bookings}
    /\ UNCHANGED <<registration_vars, create_room_vars>>
    /\ UNCHANGED <<next_id, pc, request, room, rooms_ids_to_book,
                   new_booking, outcome, rooms_available, data>>

(* services/rooms.py RoomService.edit_room: the hotel and the room exist;
   UPDATE rooms SET hotel_id, price, quantity WHERE id = :room_id; commit *)
edit_room(hotel_id, room_id, price, quantity) ==
    /\ hotel_id > 0 /\ room_id > 0
    /\ hotel_id \in HotelIds
    /\ room_id \in DOMAIN rooms
    /\ rooms' = [rooms EXCEPT ![room_id] =
            [hotel_id |-> hotel_id, price |-> price, quantity |-> quantity]]
    /\ UNCHANGED <<registration_vars, create_room_vars>>
    /\ UNCHANGED <<bookings, next_id, pc, request, room, rooms_ids_to_book,
                   new_booking, outcome, rooms_available, data>>

(* services/rooms.py RoomService.partially_edit_room with only the price
   set: UPDATE rooms SET hotel_id, price WHERE hotel_id = :hotel_id AND
   id = :room_id; a room of another hotel matches no row *)
partially_edit_room(hotel_id, room_id, price) ==
    /\ hotel_id > 0
    /\ hotel_id \in HotelIds
    /\ room_id \in DOMAIN rooms
    /\ rooms' = IF rooms[room_id].hotel_id = hotel_id
                THEN [rooms EXCEPT ![room_id].price = price]
                ELSE rooms
    /\ UNCHANGED <<registration_vars, create_room_vars>>
    /\ UNCHANGED <<bookings, next_id, pc, request, room, rooms_ids_to_book,
                   new_booking, outcome, rooms_available, data>>

(* services/rooms.py RoomService.partially_edit_room with only the quantity
   set: UPDATE rooms SET hotel_id, quantity WHERE hotel_id = :hotel_id AND
   id = :room_id; a room of another hotel matches no row *)
partially_edit_room_quantity(hotel_id, room_id, quantity) ==
    /\ hotel_id > 0
    /\ hotel_id \in HotelIds
    /\ room_id \in DOMAIN rooms
    /\ quantity >= 0
    /\ rooms' = IF rooms[room_id].hotel_id = hotel_id
                THEN [rooms EXCEPT ![room_id].quantity = quantity]
                ELSE rooms
    /\ UNCHANGED <<registration_vars, create_room_vars>>
    /\ UNCHANGED <<bookings, next_id, pc, request, room, rooms_ids_to_book,
                   new_booking, outcome, rooms_available, data>>

----------------------------------------------------------------------------
(* api/auth.py register_user and services/auth.py AuthService.register_user *)

(* schemas/users.py UserRequestAdd: email is an EmailStr, password has
   min_length 8; a body that fails is answered 422 before the handler *)
UserRequestAdd(email, password_length) ==
    email[1] # "" /\ email[2] # "" /\ password_length >= 8

(* The status of a registration whose insert breaks the unique constraint
   on users.email: 409 where the repository raises
   ObjectAlreadyExistsException (UserAllReadyExistsHTTPException), 500
   where BaseRepository.add lets the driver's IntegrityError through *)
email_taken_status_codes == {409, 500}

(* POST /auth/register: INSERT INTO users ... RETURNING, commit. The
   sequence value of a refused insert is used up *)
register_user(email, password_length) ==
    /\ IF ~UserRequestAdd(email, password_length)
       THEN /\ resp_register' = [email |-> email, status_code |-> 422]
            /\ UNCHANGED <<users, users_id_seq>>
       ELSE IF \E u \in users : u.email = email
       THEN /\ \E code \in email_taken_status_codes :
                  resp_register' = [email |-> email, status_code |-> code]
            /\ users_id_seq' = users_id_seq + 1
            /\ UNCHANGED users
       ELSE /\ users' = users \cup {[id |-> users_id_seq, email |-> email]}
            /\ users_id_seq' = users_id_seq + 1
            /\ resp_register' = [email |-> email, status_code |-> 200]
    /\ UNCHANGED create_room_vars
    /\ UNCHANGED <<rooms, bookings, next_id, pc, request, room,
                   rooms_ids_to_book, new_booking, outcome, rooms_available,
                   data>>

----------------------------------------------------------------------------
(* api/rooms.py create_room and services/rooms.py RoomService.create_room;
   the title of the new room is taken to be free in its hotel *)

(* The request arrives and runs up to rooms.add: index check, hotel lookup,
   INSERT INTO rooms ... RETURNING in the request's session *)
create_room(hotel_id, price, quantity, facilities_ids) ==
    /\ create_room_call.pc \in {"idle", "done"}
    /\ IF hotel_id <= 0
       THEN /\ create_room_call' = [NoCall EXCEPT !.pc = "done",
                                       !.outcome = "HotelIndexWrong"]
            /\ UNCHANGED rooms_id_seq
       ELSE IF hotel_id \notin HotelIds
       THEN /\ create_room_call' = [NoCall EXCEPT !.pc = "done",
                                       !.outcome = "HotelNotFound"]
            /\ UNCHANGED rooms_id_seq
       ELSE /\ create_room_call' =
                  [pc |-> "facilities", hotel_id |-> hotel_id,
                   facilities_ids |-> facilities_ids,
                   room |-> {[id |-> rooms_id_seq, hotel_id |-> hotel_id,
                              price |-> price, quantity |-> quantity]},
                   rooms_facilities_data |-> {}, outcome |-> "none"]
            /\ rooms_id_seq' = rooms_id_seq + 1
    /\ UNCHANGED <<rooms_facilities, registration_vars>>
    /\ UNCHANGED <<rooms, bookings, next_id, pc, request, room,
                   rooms_ids_to_book, new_booking, outcome, rooms_available,
                   data>>

(* The facility check that raises and leaves the inserted room committed *)
create_room_facilities_committing(missing_ids) ==
    /\ create_room_call.pc = "facilities"
    /\ missing_ids = create_room_call.facilities_ids \ FacilityIds
    /\ IF create_room_call.facilities_ids # {} /\ missing_ids # {}
       THEN /\ create_room_call' =
                  [create_room_call EXCEPT !.pc = "done", !.room = {},
                      !.outcome = "FacilitiesNotFound"]
            /\ rooms' = [id \in DOMAIN rooms \cup {r.id : r \in create_room_call.room} |->
                            IF id \in DOMAIN rooms THEN rooms[id]
                            ELSE LET r == CHOOSE x \in create_room_call.room : x.id = id
                                 IN  [hotel_id |-> r.hotel_id, price |-> r.price,
                                      quantity |-> r.quantity]]
       ELSE /\ create_room_call' =
                  [create_room_call EXCEPT !.pc = "commit",
                      !.rooms_facilities_data =
                          {[room_id |-> r.id, facility_id |-> f] :
                              r \in create_room_call.room,
                              f \in create_room_call.facilities_ids}]
            /\ UNCHANGED rooms
    /\ UNCHANGED <<rooms_id_seq, rooms_facilities, registration_vars>>
    /\ UNCHANGED <<bookings, next_id, pc, request, room,
                   rooms_ids_to_book, new_booking, outcome, rooms_available,
                   data>>

(* facilities.get_many_by_ids and the test for missing ids: with a missing
   id FacilitiesNotFoundHTTPException leaves the handler and __aexit__ rolls
   the session back; otherwise the links are inserted with add_bulk *)
create_room_facilities(missing_ids) ==
    /\ create_room_call.pc = "facilities"
    /\ missing_ids = create_room_call.facilities_ids \ FacilityIds
    /\ IF create_room_call.facilities_ids # {} /\ missing_ids # {}
       THEN create_room_call' =
                  [create_room_call EXCEPT !.pc = "done", !.room = {},
                      !.outcome = "FacilitiesNotFound"]
       ELSE create_room_call' =
                  [create_room_call EXCEPT !.pc = "commit",
                      !.rooms_facilities_data =
                          {[room_id |-> r.id, facility_id |-> f] :
                              r \in create_room_call.room,
                              f \in create_room_call.facilities_ids}]
    /\ UNCHANGED <<rooms_id_seq, rooms_facilities, registration_vars>>
    /\ UNCHANGED <<rooms, bookings, next_id, pc, request, room,
                   rooms_ids_to_book, new_booking, outcome, rooms_available,
                   data>>

(* self.db.commit(): the room and its links become rows of the store *)
create_room_commit ==
    /\ create_room_call.pc = "commit"
    /\ rooms' = [id \in DOMAIN rooms \cup {r.id : r \in create_room_call.room} |->
                    IF id \in DOMAIN rooms THEN rooms[id]
                    ELSE LET r == CHOOSE x \in create_room_call.room : x.id = id
                         IN  [hotel_id |-> r.hotel_id, price |-> r.price,
                              quantity |-> r.quantity]]
    /\ rooms_facilities' = rooms_facilities \cup create_room_call.rooms_facilities_data
    /\ create_room_call' =
          [create_room_call EXCEPT !.pc = "done", !.room = {},
              !.rooms_facilities_data = {}, !.outcome = "Created"]
    /\ UNCHANGED <<rooms_id_seq, registration_vars>>
    /\ UNCHANGED <<bookings, next_id, pc, request, room,
                   rooms_ids_to_book, new_booking, outcome, rooms_available,
                   data>>

(* Requests of concurrent clients interleave at every await *)
Next ==
    \/ \E p \in Procs, room_id \in RoomIds \cup {MissingRoomId}, r \in Ranges :
          ids_left(MaxId) /\ post_booking(p, room_id, r[1], r[2])
    \/ \E p \in Procs : add_booking_get_room(p)
    \/ \E p \in Procs : add_booking_check(p)
    \/ \E p \in Procs : add(p)
    \/ \E p \in Procs : commit(p)
    \/ \E id \in 1..MaxId : delete(id)

Spec == Init /\ [][Next]_vars

(* One client whose requests are executed one after the other: nothing
   starts while a request is between its arrival and its commit *)
SeqNext ==
    \/ \E room_id \in RoomIds \cup {MissingRoomId}, r \in Ranges :
          ids_left(MaxId) /\ post_booking(SeqClient, room_id, r[1], r[2])
    \/ add_booking_get_room(SeqClient)
    \/ add_booking_check(SeqClient)
    \/ add(SeqClient)
    \/ commit(SeqClient)
    \/ \E id \in 1..MaxId : InFlight = {} /\ delete(id)

SeqSpec == Init /\ [][SeqNext]_vars

(* One client whose request bodies carry two dates in any order, handed to
   BookingService.add_booking as they are *)
AnyDatesNext ==
    \/ \E room_id \in RoomIds, r \in DatePairs :
          ids_left(MaxId) /\ post_booking(SeqClient, room_id, r[1], r[2])
    \/ add_booking_get_room(SeqClient)
    \/ add_booking_check(SeqClient)
    \/ add(SeqClient)
    \/ commit(SeqClient)
    \/ \E id \in 1..MaxId : InFlight = {} /\ delete(id)

AnyDatesSpec == Init /\ [][AnyDatesNext]_vars

(* The event loop resumes a handler whenever the statement it awaits has
   returned, so no step of a request is postponed for ever *)
FairSeqSpec ==
    /\ SeqSpec
    /\ WF_vars(add_booking_get_room(SeqClient))
    /\ WF_vars(add_booking_check(SeqClient))
    /\ WF_vars(add(SeqClient))
    /\ WF_vars(commit(SeqClient))

(* One client that sends calls one after the other, repeats a call that was
   refused or failed, and cancels bookings in between; the session of a call
   may fail once its insert has run *)
RetryNext ==
    \/ \E room_id \in RoomIds \cup {MissingRoomId}, r \in Ranges :
          ids_left(MaxId) /\ post_booking(SeqClient, room_id, r[1], r[2])
    \/ ids_left(MaxId) /\ retry_booking(SeqClient)
    \/ add_booking_get_room(SeqClient)
    \/ add_booking_check(SeqClient)
    \/ add(SeqClient)
    \/ commit(SeqClient)
    \/ aexit(SeqClient)
    \/ commit_unacknowledged(SeqClient)
    \/ \E id \in 1..MaxId : InFlight = {} /\ delete(id)

RetrySpec == Init /\ [][RetryNext]_vars

(* get_db leaves its async with when the handler returns or raises, and a
   handler is resumed whenever the statement it awaits has returned or
   failed: no open session is kept for ever *)
FairRetrySpec ==
    /\ RetrySpec
    /\ WF_vars(add_booking_get_room(SeqClient))
    /\ WF_vars(add_booking_check(SeqClient))
    /\ WF_vars(add(SeqClient))
    /\ WF_vars(commit(SeqClient) \/ aexit(SeqClient)
                   \/ commit_unacknowledged(SeqClient))

(* One client of the API, and a caller that holds a DBManager and uses the
   bookings repository directly *)
RepositoryNext ==
    \/ \E room_id \in RoomIds \cup {MissingRoomId}, r \in Ranges :
          ids_left(MaxId) /\ post_booking(SeqClient, room_id, r[1], r[2])
    \/ add_booking_get_room(SeqClient)
    \/ add_booking_check(SeqClient)
    \/ add(SeqClient)
    \/ commit(SeqClient)
    \/ \E id \in 1..MaxId : InFlight = {} /\ delete(id)
    \/ \E room_id \in RoomIds, r \in Ranges :
          /\ ids_left(MaxId) /\ InFlight = {}
          /\ bookings_add(SeqClient, room_id, r[1], r[2], PriceOf[room_id])
    \/ \E b \in bookings, room_id \in RoomIds, r \in Ranges :
          /\ InFlight = {}
          /\ bookings_edit(b.id, b.user_id, room_id, r[1], r[2], b.price)

RepositorySpec == Init /\ [][RepositoryNext]_vars

(* The room whose price the administrator changes *)
EditedRoom == 1

(* One client books while an administrator changes the price of a room,
   with PUT and with PATCH, also while a booking is on its way *)
RoomEditNext ==
    \/ \E room_id \in RoomIds \cup {MissingRoomId}, r \in Ranges :
          ids_left(MaxId) /\ post_booking(SeqClient, room_id, r[1], r[2])
    \/ add_booking_get_room(SeqClient)
    \/ add_booking_check(SeqClient)
    \/ add(SeqClient)
    \/ commit(SeqClient)
    \/ \E id \in 1..MaxId : InFlight = {} /\ delete(id)
    \/ \E price \in Prices :
          edit_room(rooms[EditedRoom].hotel_id, EditedRoom, price,
                    rooms[EditedRoom].quantity)
    \/ \E hotel_id \in HotelIds, price \in Prices :
          partially_edit_room(hotel_id, EditedRoom, price)

RoomEditSpec == Init /\ [][RoomEditNext]_vars

(* The quantities an administrator gives a room: RoomAddRequest.quantity
   is any integer >= 0 *)
Quantities == {QuantityOf[id] : id \in RoomIds}

(* One client books, and between two requests an administrator changes the
   quantity of a room with PUT or with PATCH *)
QuantityEditNext ==
    \/ \E room_id \in RoomIds \cup {MissingRoomId}, r \in Ranges :
          ids_left(MaxId) /\ post_booking(SeqClient, room_id, r[1], r[2])
    \/ add_booking_get_room(SeqClient)
    \/ add_booking_check(SeqClient)
    \/ add(SeqClient)
    \/ commit(SeqClient)
    \/ \E id \in 1..MaxId : InFlight = {} /\ delete(id)
    \/ \E room_id \in RoomIds, quantity \in Quantities :
          /\ InFlight = {}
          /\ edit_room(rooms[room_id].hotel_id, room_id, rooms[room_id].price,
                       quantity)
    \/ \E room_id \in RoomIds, quantity \in Quantities :
          /\ InFlight = {}
          /\ partially_edit_room_quantity(rooms[room_id].hotel_id, room_id,
                                          quantity)

QuantityEditSpec == Init /\ [][QuantityEditNext]_vars

(* One client that repeats refused calls and cancels bookings in between.
   It may send one call more than the store has ids for under SeqSpec, so
   that a call can meet MaxId bookings. *)
CancelNext ==
    \/ \E room_id \in RoomIds \cup {MissingRoomId}, r \in Ranges :
          ids_left(MaxId + 1) /\ post_booking(SeqClient, room_id, r[1], r[2])
    \/ ids_left(MaxId + 1) /\ retry_booking(SeqClient)
    \/ add_booking_get_room(SeqClient)
    \/ add_booking_check(SeqClient)
    \/ add(SeqClient)
    \/ commit(SeqClient)
    \/ \E id \in 1..(MaxId + 1) : InFlight = {} /\ delete(id)

CancelSpec == Init /\ [][CancelNext]_vars

----------------------------------------------------------------------------
(* The room listing over a seeded bookings table; a listing changes no
   table, so one listing per seeded table is explored *)

(* repositories/rooms.py RoomsRepository.get_filtered_by_time:
   SELECT rooms WHERE id IN (rooms_ids_for_booking(date_from, date_to, hotel_id)) *)
get_filtered_by_time(hotel_id, date_from, date_to) ==
    /\ rooms_available = NoListing
    /\ rooms_available' =
          [hotel_id |-> hotel_id, date_from |-> date_from, date_to |-> date_to,
           rooms_ids |-> {id \in DOMAIN rooms :
                id \in rooms_ids_for_booking(rooms, bookings, date_from,
                                             date_to, hotel_id)}]
    /\ UNCHANGED <<registration_vars, create_room_vars>>
    /\ UNCHANGED <<rooms, bookings, next_id, pc, request, room,
                   rooms_ids_to_book, new_booking, outcome, data>>

(* The hotels of a set of rooms: SELECT hotel_id FROM rooms WHERE id IN (...) *)
hotels_ids_to_get(rooms_table, rooms_ids) ==
    {rooms_table[id].hotel_id : id \in rooms_ids \cap DOMAIN rooms_table}

(* services/hotels.py HotelService.get_filtered_by_time, after its date
   check: the availability query without a hotel filter; the hotels listed
   are the hotels of the rooms it returns *)
hotels_get_filtered_by_time(date_from, date_to) ==
    /\ rooms_available = NoListing
    /\ date_from < date_to
    /\ rooms_available' =
          [hotel_id |-> None, date_from |-> date_from, date_to |-> date_to,
           rooms_ids |-> rooms_ids_for_booking(rooms, bookings, date_from,
                                               date_to, None)]
    /\ UNCHANGED <<registration_vars, create_room_vars>>
    /\ UNCHANGED <<rooms, bookings, next_id, pc, request, room,
                   rooms_ids_to_book, new_booking, outcome, data>>

(* Rooms without units take no bookings *)
SeededRooms == {id \in RoomIds : QuantityOf[id] > 0}

(* Rows of a seeded table: row i has id i; rows are listed in the order of
   their (room, dates) key so that a table is drawn once *)
RowKey(room_id, r) == (room_id * (MaxQueryDay + 1) + r[1]) * (MaxQueryDay + 1) + r[2]
SeededTables ==
    UNION {
      {{[id |-> i, user_id |-> 1, room_id |-> f[i][1],
         date_from |-> f[i][2][1], date_to |-> f[i][2][2],
         price |-> PriceOf[f[i][1]]] : i \in 1..n} :
          f \in {g \in [1..n -> SeededRooms \X QueryRanges] :
                    \A i \in 1..n, j \in 1..n :
                        i < j => RowKey(g[i][1], g[i][2]) <= RowKey(g[j][1], g[j][2])}} :
      n \in 0..MaxRows}

CalcInit ==
    /\ rooms = [id \in RoomIds |->
                   [hotel_id |-> HotelOf[id], price |-> PriceOf[id],
                    quantity |-> QuantityOf[id]]]
    /\ bookings \in SeededTables
    /\ next_id = Cardinality(bookings) + 1
    /\ pc = [p \in Procs |-> "idle"]
    /\ request = [p \in Procs |-> NoRequest]
    /\ room = [p \in Procs |-> NoRoom]
    /\ rooms_ids_to_book = [p \in Procs |-> {}]
    /\ new_booking = [p \in Procs |-> {}]
    /\ outcome = [p \in Procs |-> "none"]
    /\ rooms_available = NoListing
    /\ data = [p \in Procs |-> {}]
    /\ users = {}
    /\ users_id_seq = 1
    /\ resp_register = NoResponse
    /\ rooms_id_seq = Cardinality(RoomIds) + 1
    /\ rooms_facilities = {}
    /\ create_room_call = NoCall

CalcNext ==
    \E hotel_id \in {1, 2}, r \in QueryRanges :
        get_filtered_by_time(hotel_id, r[1], r[2])

CalcSpec == CalcInit /\ [][CalcNext]_vars

(* The hotel listing over the seeded tables *)
HotelCalcNext ==
    \E r \in QueryRanges : hotels_get_filtered_by_time(r[1], r[2])

HotelCalcSpec == CalcInit /\ [][HotelCalcNext]_vars

----------------------------------------------------------------------------
(* An administrator creates rooms one after the other, with facility ids
   that exist and with ids that do not *)
CreateRoomNext ==
    \/ \E hotel_id \in HotelIds \cup {MissingHotelId, WrongIndex},
          facilities_ids \in SUBSET (FacilityIds \cup {MissingFacilityId}) :
          /\ rooms_id_seq <= Cardinality(RoomIds) + MaxId
          /\ create_room(hotel_id, PriceOf[1], QuantityOf[1], facilities_ids)
    \/ \E missing_ids \in SUBSET {MissingFacilityId} :
          create_room_facilities(missing_ids)
    \/ create_room_commit

CreateRoomSpec == Init /\ [][CreateRoomNext]_vars

(* Registrations sent one after the other, as test_auth_flow sends them *)
RegisterNext ==
    \E email \in Emails, password_length \in PasswordLengths :
        /\ users_id_seq <= MaxId + 1
        /\ register_user(email, password_length)

RegisterSpec == Init /\ [][RegisterNext]_vars

(* The bookings repository used by itself, as test_add_booking_crud uses
   it: rows are added, given a new date_to and deleted with no request in
   between *)
CrudNext ==
    \/ \E room_id \in RoomIds, r \in Ranges :
          /\ next_id <= MaxId
          /\ bookings_add(SeqClient, room_id, r[1], r[2], PriceOf[room_id])
    \/ \E b \in bookings, date_to \in Days :
          /\ b.date_from < date_to
          /\ bookings_edit(b.id, b.user_id, b.room_id, b.date_from, date_to, b.price)
    \/ \E id \in 1..MaxId : delete(id)

CrudSpec == Init /\ [][CrudNext]_vars

----------------------------------------------------------------------------
(* The properties *)

(* Glossary: [a,b) and [c,d) overlap iff a < d and c < b *)
Overlap(a, b, c, d) == a < d /\ c < b

(* The bookings of a table on room r that cover day d *)
Covering(table, r, d) ==
    {b \in table : b.room_id = r /\ b.date_from <= d /\ d < b.date_to}

(* For every room and day, the bookings covering the day are at most
   room.quantity *)
CapacityInvariant ==
    \A r \in DOMAIN rooms, d \in Days \cup QueryDays :
        Cardinality(Covering(bookings, r, d)) <= rooms[r].quantity

(* The bookings of a table on room r whose closed interval meets the closed
   query interval *)
Reserved(table, r, date_from, date_to) ==
    {b \in table : b.room_id = r /\ b.date_from <= date_to /\ b.date_to >= date_from}

(* C1: in every state reached by sequentially executed admissions and
   deletions, for every room r and day d the number of bookings on r with
   date_from <= d < date_to is at most r.quantity. *)
C1_CapacitySequential == CapacityInvariant

(* A room holds as many bookings on one day as it has units, and the last
   request was refused for lack of capacity. *)
C1_Witness ==
    /\ outcome[SeqClient] = "AllRoomsAreBooked"
    /\ \E r \in DOMAIN rooms, d \in Days :
          /\ rooms[r].quantity >= 1
          /\ Cardinality(Covering(bookings, r, d)) = rooms[r].quantity

(* C2: the capacity invariant holds after every committed write when
   several add_booking requests run concurrently. *)
C2_CapacityAfterEveryCommit ==
    [][bookings' # bookings => CapacityInvariant']_vars

(* C3: with quantity 1, of two concurrent requests for the same room with
   overlapping ranges the one that commits second is not admitted: no
   request commits onto a room whose only unit a committed overlapping
   booking already holds. *)
C3_NeverBothAdmitted ==
    [][\A p \in Procs :
         ( /\ pc[p] = "commit" /\ pc'[p] = "done"
           /\ rooms[request[p].room_id].quantity = 1
           /\ \E b \in bookings :
                 /\ b.room_id = request[p].room_id
                 /\ Overlap(b.date_from, b.date_to,
                            request[p].date_from, request[p].date_to) )
         => outcome'[p] = "AllRoomsAreBooked"]_vars

(* C4: the reserved count of a room for the range of a listing is the
   number of bookings b on the room with b.date_from <= q_to and
   b.date_to >= q_from, each counted once; for quantity 2 with bookings
   [0,2) and [3,5) the query [1,4) gives reserved count 2 and rooms left 0. *)
C4_ReservedCount ==
    rooms_available # NoListing =>
        LET df == rooms_available.date_from
            dt == rooms_available.date_to
        IN  \A r \in DOMAIN rooms :
              /\ rooms_reserved(bookings, r, df, dt)
                    = Cardinality(Reserved(bookings, r, df, dt))
              /\ ( /\ df = 1 /\ dt = 4
                   /\ rooms[r].quantity = 2
                   /\ Cardinality({b \in bookings : b.room_id = r}) = 2
                   /\ {<<b.date_from, b.date_to>> :
                          b \in {x \in bookings : x.room_id = r}}
                         = {<<0, 2>>, <<3, 5>>} )
                 => /\ rooms_reserved(bookings, r, df, dt) = 2
                    /\ rooms_left(rooms, bookings, r, df, dt) = 0

(* The listing for [1,4) ran over the table of the example and left the
   full room out. *)
C4_Witness ==
    /\ rooms_available.hotel_id = 1
    /\ rooms_available.date_from = 1 /\ rooms_available.date_to = 4
    /\ {<<b.room_id, b.date_from, b.date_to>> : b \in bookings}
          = {<<2, 0, 2>>, <<2, 3, 5>>}
    /\ rooms[2].quantity = 2
    /\ 2 \notin rooms_available.rooms_ids

(* C5: with quantity 1 and one booking [a,b) on the room, a following
   request for [b,c) passes the availability check and is admitted. *)
C5_TouchingAdmitted ==
    [][\A p \in Procs :
         ( /\ pc[p] = "check" /\ pc'[p] # "check"
           /\ rooms[request[p].room_id].quantity = 1
           /\ \E b \in bookings :
                 /\ {x \in bookings : x.room_id = request[p].room_id} = {b}
                 /\ b.date_to = request[p].date_from )
         => pc'[p] = "insert"]_vars

(* C6: the availability query counts a booking [a,b) for a query [c,d)
   exactly when a < d and c < b. *)
C6_FilterIsGlossaryOverlap ==
    \A b \in bookings, q \in QueryRanges :
        overlap_filter(b, q[1], q[2])
            <=> Overlap(b.date_from, b.date_to, q[1], q[2])

(* C7: the listing of a hotel for a range is exactly the set of rooms of
   that hotel with quantity - reserved count > 0; a room without a counted
   booking is listed iff its quantity is positive; no room of another hotel
   is listed. *)
C7_AvailableRoomIds ==
    rooms_available # NoListing =>
        LET h == rooms_available.hotel_id
            df == rooms_available.date_from
            dt == rooms_available.date_to
        IN  /\ rooms_available.rooms_ids =
                  {r \in DOMAIN rooms :
                      /\ rooms[r].hotel_id = h
                      /\ rooms[r].quantity
                            - Cardinality(Reserved(bookings, r, df, dt)) > 0}
            /\ \A r \in DOMAIN rooms :
                  (rooms[r].hotel_id = h /\ Reserved(bookings, r, df, dt) = {})
                      => (r \in rooms_available.rooms_ids <=> rooms[r].quantity > 0)
            /\ \A r \in rooms_available.rooms_ids : rooms[r].hotel_id = h

(* A listing of hotel 1 returned room 2, which has a booking and a free
   unit, and not the booked room 1. *)
C7_Witness ==
    /\ rooms_available.hotel_id = 1
    /\ rooms_available.rooms_ids = {2}
    /\ \E b \in Reserved(bookings, 1, rooms_available.date_from,
                            rooms_available.date_to) : TRUE
    /\ \E b \in Reserved(bookings, 2, rooms_available.date_from,
                            rooms_available.date_to) : TRUE

(* C8 as stated: in every state in which the capacity invariant holds,
   rooms left is >= 0 for every room and every query range. *)
C8_RoomsLeftNonNegative ==
    CapacityInvariant =>
        \A r \in DOMAIN rooms, q \in Ranges :
            rooms_left(rooms, bookings, r, q[1], q[2]) >= 0

(* C8 amended: in every state in which the capacity invariant holds, rooms
   left is >= 0 for every room and every query range whose counted bookings
   all cover one same day. *)
C8_RoomsLeftNonNegativeOnCommonDay ==
    CapacityInvariant =>
        \A r \in DOMAIN rooms, q \in Ranges :
            (\E d \in Days : \A b \in Reserved(bookings, r, q[1], q[2]) :
                                b.date_from <= d /\ d < b.date_to)
                => rooms_left(rooms, bookings, r, q[1], q[2]) >= 0

(* A room's units are all taken on one day by bookings on that room, another
   room is booked too, and the invariant holds. *)
C8_Witness ==
    /\ CapacityInvariant
    /\ \E r \in DOMAIN rooms, q \in Ranges, d \in Days :
          /\ Reserved(bookings, r, q[1], q[2]) # {}
          /\ \A b \in Reserved(bookings, r, q[1], q[2]) :
                b.date_from <= d /\ d < b.date_to
          /\ rooms_left(rooms, bookings, r, q[1], q[2]) = 0
          /\ \E b \in bookings : b.room_id # r

(* C9: for an existing room the availability check sends the request on to
   the insert exactly when the room is among the rooms of its hotel with
   rooms left > 0 for the requested range, and otherwise ends it with
   AllRoomsAreBooked and no row; the insert and the commit add exactly one
   row, carrying the request's user, room and dates. *)
C9_AdmitIffAvailable ==
    [][\A p \in Procs :
         LET req == request[p]
             available ==
                {r \in DOMAIN rooms :
                    /\ rooms[r].hotel_id = rooms[req.room_id].hotel_id
                    /\ rooms[r].quantity - Cardinality(
                          Reserved(bookings, r, req.date_from, req.date_to)) > 0}
         IN  /\ (pc[p] = "check" /\ pc'[p] # "check") =>
                  /\ bookings' = bookings
                  /\ IF req.room_id \in available
                     THEN pc'[p] = "insert" /\ outcome'[p] = "none"
                     ELSE /\ pc'[p] = "done"
                          /\ outcome'[p] = "AllRoomsAreBooked"
                          /\ new_booking'[p] = {}
             /\ (pc[p] = "commit" /\ pc'[p] # "commit") =>
                  /\ pc'[p] = "done" /\ outcome'[p] = "Admitted"
                  /\ bookings \subseteq bookings'
                  /\ \E b \in bookings' \ bookings :
                        /\ bookings' \ bookings = {b}
                        /\ b.id \notin {x.id : x \in bookings}
                        /\ b.user_id = req.user_id
                        /\ b.room_id = req.room_id
                        /\ b.date_from = req.date_from
                        /\ b.date_to = req.date_to]_vars

(* The client's first request was admitted and its row is in the store; a
   later request was refused for lack of capacity and inserted nothing. *)
C9_Witness ==
    /\ pc[SeqClient] = "done" /\ outcome[SeqClient] = "AllRoomsAreBooked"
    /\ \E b \in bookings : b.id = 1 /\ b.user_id = SeqClient
    /\ next_id = 2

(* C10: a request whose room_id is no room ends at the room lookup with
   RoomNotFound, before any availability check or insert, and leaves the
   bookings unchanged. *)
C10_RoomNotFound ==
    [][\A p \in Procs :
         /\ (pc[p] = "get_room" /\ pc'[p] # "get_room"
                /\ request[p].room_id \notin DOMAIN rooms)
            => /\ pc'[p] = "done"
               /\ outcome'[p] = "RoomNotFound"
               /\ bookings' = bookings
               /\ next_id' = next_id
               /\ new_booking'[p] = {}
         /\ pc'[p] \in {"check", "insert", "commit"}
            => request'[p].room_id \in DOMAIN rooms']_vars

(* A request for a missing room was refused while the store holds a
   booking. *)
C10_Witness ==
    \E p \in Procs :
        /\ pc[p] = "done"
        /\ outcome[p] = "RoomNotFound"
        /\ bookings # {}

(* C11: a call that was refused with RoomNotFound and is sent again, with
   cancellations in between and no room created, is refused with
   RoomNotFound again at the room lookup; it reaches neither the
   availability check nor an insert, and the bookings stay as they are. *)
C11_RoomNotFoundAgain ==
    [][\A p \in Procs :
         /\ DOMAIN rooms' = DOMAIN rooms
         /\ (pc[p] = "get_room" /\ pc'[p] # "get_room"
                /\ outcome[p] = "RoomNotFound")
            => /\ pc'[p] = "done"
               /\ outcome'[p] = "RoomNotFound"
               /\ request'[p] = request[p]
               /\ bookings' = bookings
               /\ next_id' = next_id
               /\ new_booking'[p] = {}
         /\ pc'[p] \in {"check", "insert", "commit"}
            => outcome'[p] # "RoomNotFound"]_vars

(* A call refused with RoomNotFound is on its way again after a booking was
   admitted and cancelled. *)
C11_Witness ==
    \E p \in Procs :
        /\ pc[p] = "get_room"
        /\ outcome[p] = "RoomNotFound"
        /\ request[p].room_id = MissingRoomId
        /\ bookings = {}
        /\ next_id > 1

(* C12: an admitted booking carries the price the room had when the
   admission read the room, and a change of a room's price by edit_room or
   partially_edit_room leaves every booking as it is; no booking's price
   ever changes. *)
C12_PriceSnapshot ==
    [][/\ \A p \in Procs :
            /\ (pc[p] = "get_room" /\ pc'[p] = "check")
                  => room'[p].price = rooms[request[p].room_id].price
            /\ (pc[p] = "commit" /\ pc'[p] = "done")
                  => \A b \in bookings' \ bookings : b.price = room[p].price
       /\ rooms' # rooms => bookings' = bookings
       /\ \A b \in bookings, c \in bookings' :
             b.id = c.id => c.price = b.price]_vars

(* A booking keeps the price read at its admission after the room's price
   was changed, and a later booking of the room carries the new price. *)
C12_Witness ==
    \E b \in bookings, c \in bookings :
        /\ b.room_id = EditedRoom /\ c.room_id = EditedRoom
        /\ b.price # rooms[EditedRoom].price
        /\ c.price = rooms[EditedRoom].price
        /\ b.id < c.id

(* A client holds a call for an existing room that was refused for lack of
   capacity *)
HoldsRefusedCall(p) ==
    /\ pc[p] = "done"
    /\ outcome[p] = "AllRoomsAreBooked"
    /\ request[p].room_id \in DOMAIN rooms

(* The availability check of a repeated call sends an available room on to
   the insert, and the commit that follows admits it *)
RepeatedCallAdmitted ==
    \A p \in Procs :
        /\ (pc[p] = "check" /\ pc'[p] # "check"
               /\ outcome[p] = "AllRoomsAreBooked"
               /\ request[p].room_id \in
                     rooms_ids_for_booking(rooms, bookings, request[p].date_from,
                         request[p].date_to, rooms[request[p].room_id].hotel_id))
              => pc'[p] = "insert"
        /\ (pc[p] = "commit" /\ pc'[p] = "done")
              => /\ outcome'[p] = "Admitted"
                 /\ \E b \in bookings' \ bookings :
                       /\ b.room_id = request[p].room_id
                       /\ b.date_from = request[p].date_from
                       /\ b.date_to = request[p].date_to

(* C13: once a call was refused for lack of capacity, cancelling one
   booking of the room that overlaps the requested range, after which every
   day of the range has a free unit, makes the room available for that
   range, so that the same call sent again is admitted. *)
C13_DeletionRestoresCapacity ==
    [][/\ \A p \in Procs : \A b \in bookings :
            ( /\ HoldsRefusedCall(p)
              /\ bookings' = bookings \ {b}
              /\ b.room_id = request[p].room_id
              /\ Overlap(b.date_from, b.date_to,
                         request[p].date_from, request[p].date_to)
              /\ \A d \in request[p].date_from .. (request[p].date_to - 1) :
                    Cardinality(Covering(bookings', request[p].room_id, d))
                        < rooms[request[p].room_id].quantity )
            => request[p].room_id \in
                  rooms_ids_for_booking(rooms', bookings', request[p].date_from,
                      request[p].date_to, rooms'[request[p].room_id].hotel_id)
       /\ RepeatedCallAdmitted]_vars

(* C14: a change of a booking's room or dates takes effect only if the
   availability query, run for the new room and range over the other
   bookings, returns the room; otherwise the booking stays as it was. *)
C14_EditRechecksCapacity ==
    [][\A b \in bookings, c \in bookings' :
         ( /\ b.id = c.id
           /\ <<c.room_id, c.date_from, c.date_to>>
                 # <<b.room_id, b.date_from, b.date_to>> )
         => c.room_id \in
               rooms_ids_for_booking(rooms, bookings \ {b}, c.date_from,
                   c.date_to, rooms[c.room_id].hotel_id)]_vars

(* C15: every booking that enters the store is committed by a session that
   ran the availability query for the booking's room and range and found
   the room in its result; nothing else adds a row. *)
C15_InsertOnlyAfterCheck ==
    [][\A b \in bookings' :
         b.id \notin {x.id : x \in bookings}
         => \E p \in Procs :
               /\ pc[p] = "commit"
               /\ b \in new_booking[p]
               /\ b.room_id \in rooms_ids_to_book[p]]_vars

(* C16: when the session of a request fails after its insert has run and
   before its commit has taken effect, the caller receives a failure, the
   inserted row is discarded and is in the store neither then nor later;
   rows enter the store only where a commit takes effect. *)
C16_NothingPersistedOnFailure ==
    [][/\ \A p \in Procs :
            aexit(p) =>
               /\ new_booking[p] # {}
               /\ outcome'[p] = "Failed"
               /\ pc'[p] = "done"
               /\ bookings' = bookings
               /\ new_booking'[p] = {}
               /\ \A b \in new_booking[p] :
                     /\ b.id \notin {x.id : x \in bookings'}
                     /\ b.id < next_id'
       /\ \A b \in bookings' :
             /\ b.id < next_id'
             /\ b.id \notin {x.id : x \in bookings}
                   => \E p \in Procs :
                         /\ b \in new_booking[p]
                         /\ commit(p) \/ commit_unacknowledged(p)
       /\ \A p \in Procs : \A b \in new_booking'[p] : b.id = next_id' - 1]_vars

(* The session of the first request failed after its insert: the caller
   holds a failure, id 1 is used up and the store is empty. *)
C16_Witness ==
    \E p \in Procs :
        /\ pc[p] = "done"
        /\ outcome[p] = "Failed"
        /\ new_booking[p] = {}
        /\ next_id = 2
        /\ bookings = {}

(* C17: a call that is sent again after the caller received a failure
   leaves at most one booking of that call in the store: when the repeated
   call is committed, the row its failed attempt inserted is not there. *)
C17_RetryNeverDoubleAdmits ==
    [][\A p \in Procs :
         ( /\ pc[p] = "commit"
           /\ outcome[p] = "Failed"
           /\ bookings' # bookings )
         => \A b \in new_booking[p] :
               ~ \E x \in bookings :
                    /\ x.id = b.id - 1
                    /\ x.user_id = b.user_id /\ x.room_id = b.room_id
                    /\ x.date_from = b.date_from /\ x.date_to = b.date_to]_vars

(* C18: a request whose session does not fail comes to an end, and it ends
   in exactly one of Admitted (a booking inserted and committed, status
   200), AllRoomsAreBooked (status 409) and RoomNotFound (status 404); the
   steps of a request change the stored bookings only where it ends as
   Admitted. *)
C18_ThreeOutcomes ==
    /\ [](\A p \in Procs :
            pc[p] = "done" =>
               /\ outcome[p] \in {"Admitted", "AllRoomsAreBooked", "RoomNotFound"}
               /\ status_code(outcome[p]) \in {200, 409, 404}
               /\ status_code(outcome[p]) = 409 <=> outcome[p] = "AllRoomsAreBooked"
               /\ status_code(outcome[p]) = 404 <=> outcome[p] = "RoomNotFound")
    /\ [][\A p \in Procs :
            /\ (pc[p] # "done" /\ pc'[p] = "done" /\ outcome'[p] = "Admitted")
                  => /\ new_booking[p] # {}
                     /\ bookings' = bookings \cup new_booking[p]
                     /\ new_booking[p] \cap bookings = {}
            /\ (pc'[p] # pc[p] /\ ~(pc'[p] = "done" /\ outcome'[p] = "Admitted"))
                  => bookings' = bookings
            /\ (pc[p] = "done" /\ pc'[p] = "done") => outcome'[p] = outcome[p]]_vars
    /\ \A p \in {SeqClient} : (pc[p] \in {"get_room", "check", "insert", "commit"})
                                  ~> (pc[p] = "done")

(* A request was refused with status 409 while the store holds the booking
   that takes the room. *)
C18_Witness ==
    /\ pc[SeqClient] = "done"
    /\ status_code(outcome[SeqClient]) = 409
    /\ \E b \in bookings :
          /\ b.room_id = request[SeqClient].room_id
          /\ Overlap(b.date_from, b.date_to, request[SeqClient].date_from,
                     request[SeqClient].date_to)

(* C19: every booking stored by POST /bookings through
   BookingService.add_booking has date_from < date_to; a request with
   date_to <= date_from is refused before anything is inserted. *)
C19_DatesOrdered ==
    /\ \A b \in bookings : b.date_from < b.date_to
    /\ \A p \in Procs :
          pc[p] \in {"insert", "commit"} => request[p].date_from < request[p].date_to
    /\ \A p \in Procs : \A b \in new_booking[p] : b.date_from < b.date_to

(* C20: an admitted call returns the stored booking, with the id the store
   gave it, and the response to the POST carries that booking as its
   data. *)
C20_ReturnsPersistedBooking ==
    [][\A p \in Procs :
         (pc[p] = "commit" /\ pc'[p] = "done" /\ outcome'[p] = "Admitted")
            => /\ data'[p] # {}
               /\ data'[p] = new_booking[p]
               /\ data'[p] \subseteq bookings']_vars

(* C21: the hotels listed for a range are exactly the hotels that own at
   least one room with quantity - reserved count > 0; without a hotel
   filter the availability query returns every such room of every hotel,
   and a hotel none of whose rooms has a unit left is not listed. *)
C21_AvailableHotelIds ==
    rooms_available # NoListing =>
        LET df == rooms_available.date_from
            dt == rooms_available.date_to
            left(r) == rooms[r].quantity - Cardinality(Reserved(bookings, r, df, dt))
            listed == hotels_ids_to_get(rooms, rooms_available.rooms_ids)
        IN  /\ rooms_available.rooms_ids = {r \in DOMAIN rooms : left(r) > 0}
            /\ listed = {h \in HotelIds :
                            \E r \in DOMAIN rooms : rooms[r].hotel_id = h /\ left(r) > 0}
            /\ \A h \in HotelIds :
                  (\A r \in DOMAIN rooms : rooms[r].hotel_id = h => left(r) <= 0)
                      => /\ h \notin listed
                         /\ \A r \in rooms_available.rooms_ids : rooms[r].hotel_id # h

(* A hotel listing returned hotel 1 for its room 2 while its room 1 was
   taken, and left out hotel 2, whose only room has no unit. *)
C21_Witness ==
    /\ rooms_available # NoListing
    /\ rooms_available.hotel_id = None
    /\ rooms_available.rooms_ids = {2}
    /\ hotels_ids_to_get(rooms, rooms_available.rooms_ids) = {1}
    /\ Reserved(bookings, 1, rooms_available.date_from, rooms_available.date_to) # {}

(* C22: a booking added through the repository is read back by
   get_one_or_none(id) with the same id, room_id and user_id; after an edit
   of the row with a new date_to the row read back has the same id and the
   new date_to; after the row is deleted get_one_or_none(id) returns
   nothing. *)
C22_RepositoryRoundTrip ==
    [][/\ \A room_id \in RoomIds, r \in Ranges :
            ( /\ next_id' = next_id + 1
              /\ bookings_add(SeqClient, room_id, r[1], r[2], PriceOf[room_id]) )
               => /\ get_one_or_none(bookings, next_id) = {}
                  /\ Cardinality(get_one_or_none(bookings', next_id)) = 1
                  /\ \A b \in get_one_or_none(bookings', next_id) :
                        /\ b.id = next_id
                        /\ b.room_id = room_id
                        /\ b.user_id = SeqClient
       /\ \A old \in bookings, date_to \in Days :
            ( /\ next_id' = next_id
              /\ old.date_from < date_to
              /\ bookings_edit(old.id, old.user_id, old.room_id, old.date_from,
                               date_to, old.price) )
               => /\ Cardinality(get_one_or_none(bookings', old.id)) = 1
                  /\ \A b \in get_one_or_none(bookings', old.id) :
                        b.id = old.id /\ b.date_to = date_to
       /\ \A id \in 1..MaxId :
            delete(id) => /\ get_one_or_none(bookings, id) # {}
                          /\ get_one_or_none(bookings', id) = {}]_vars

(* Booking 1 was added with date_to 1, its date_to was edited to 3, and it
   was deleted after booking 2 was added. *)
C22_Witness ==
    /\ next_id = 3
    /\ get_one_or_none(bookings, 1) = {}
    /\ \E b \in get_one_or_none(bookings, 2) : b.date_to = 3 /\ b.date_from = 0

(* C24: an admission attempt that hits a storage conflict is not the end of
   the request: the service discards the attempt and runs the admission
   sequence again, and only a request whose repeated attempts all failed
   ends in a failure. *)
C24_ConflictRetried ==
    [][\A p \in Procs :
         ( /\ pc[p] = "commit"
           /\ new_booking[p] # {} /\ new_booking'[p] = {}
           /\ new_booking[p] \cap bookings' = {} )
            => /\ pc'[p] = "get_room"
               /\ outcome'[p] # "Failed"]_vars

(* C25: after every committed room edit that changes the quantity of a
   room, for every day the bookings of the room that cover the day are at
   most the new quantity. *)
C25_CapacityAfterRoomEdit ==
    [][\A r \in DOMAIN rooms :
         rooms'[r].quantity # rooms[r].quantity
            => \A d \in Days :
                  Cardinality(Covering(bookings', r, d)) <= rooms'[r].quantity]_vars

(* C26: for every room, every table of bookings with date_from < date_to
   and every query range [q_from, q_to), the reserved count of the
   availability query is at least the number of bookings covering d for
   every day d of the range; so a room the query returns has, on every day
   of the range, fewer bookings than units. *)
C26_CoarseCountConservative ==
    rooms_available # NoListing =>
        LET df == rooms_available.date_from
            dt == rooms_available.date_to
        IN  \A r \in DOMAIN rooms :
              /\ \A d \in df..(dt - 1) :
                    rooms_reserved(bookings, r, df, dt)
                        >= Cardinality(Covering(bookings, r, d))
              /\ r \in rooms_available.rooms_ids
                    => \A d \in df..(dt - 1) :
                          Cardinality(Covering(bookings, r, d)) < rooms[r].quantity

(* The query left room 2 out although on every day of the range one of
   its two units was free: the count is above the count of every day. *)
C26_Witness ==
    /\ rooms_available.hotel_id = None
    /\ 2 \notin rooms_available.rooms_ids
    /\ rooms_available.date_from < rooms_available.date_to
    /\ \A d \in rooms_available.date_from..(rooms_available.date_to - 1) :
          Cardinality(Covering(bookings, 2, d)) < rooms[2].quantity
    /\ \E d \in rooms_available.date_from..(rooms_available.date_to - 1) :
          Cardinality(Covering(bookings, 2, d)) = 1

(* C27: every stored booking can be deleted, whatever the state of its
   room; for every room and every query range the reserved count after a
   deletion is at most the reserved count before it, and if the capacity
   invariant held before the deletion it holds after it. *)
C27_DeletionOnlyReduces ==
    /\ [](\A b \in bookings : ENABLED delete(b.id))
    /\ [][\A id \in 1..MaxId :
            (next_id' = next_id /\ delete(id))
               => /\ \A r \in DOMAIN rooms, q \in Ranges :
                        rooms_reserved(bookings', r, q[1], q[2])
                           <= rooms_reserved(bookings, r, q[1], q[2])
                  /\ CapacityInvariant => CapacityInvariant']_vars

(* A booking was deleted, and the booking that is left fills the one unit
   of room 1 with the capacity invariant holding. *)
C27_Witness ==
    /\ Cardinality(bookings) < next_id - 1
    /\ \E d \in Days : Cardinality(Covering(bookings, 1, d)) = rooms[1].quantity
    /\ rooms_reserved(bookings, 1, 0, MaxDay) = 1
    /\ CapacityInvariant

(* C28: every session that is opened is left; when it is left, on a
   refusal, after the commit and on a failure alike, none of its uncommitted
   rows remains and none of them is visible to others before; the rows
   written in the session are in the store afterwards exactly when the
   commit was called after them and took effect before the exit. *)
C28_ScopedSession ==
    /\ [](\A p \in Procs :
            /\ new_booking[p] \cap bookings = {}
            /\ p \notin InFlight => new_booking[p] = {})
    /\ [][\A p \in Procs :
            (p \in InFlight /\ pc'[p] = "done")
               => /\ new_booking'[p] = {}
                  /\ new_booking[p] # {}
                        => (new_booking[p] \subseteq bookings'
                              <=> (commit(p) \/ commit_unacknowledged(p)))
                  /\ new_booking[p] # {}
                        => (new_booking[p] \cap bookings' = {} <=> aexit(p))
                  /\ bookings' \ bookings \subseteq new_booking[p]
                  /\ new_booking[p] = {} => bookings' = bookings]_vars
    /\ \A p \in {SeqClient} : (p \in InFlight) ~> (pc[p] = "done")

(* A session failed after its insert and left nothing, and the session
   of the repeated call committed its row. *)
C28_Witness ==
    /\ pc[SeqClient] = "done"
    /\ outcome[SeqClient] = "Admitted"
    /\ new_booking[SeqClient] = {}
    /\ next_id = 3
    /\ \E b \in bookings : b.id = 2
    /\ get_one_or_none(bookings, 1) = {}

(* C29: admitting a booking on room A, or deleting a booking of room A,
   leaves the reserved count, the rooms left and the answer of the
   availability check of every other room B as they were, for every query
   range, also when A and B are rooms of one hotel. *)
C29_RoomsIndependent ==
    [][\A A \in DOMAIN rooms :
         ( /\ bookings' # bookings
           /\ \A b \in (bookings \ bookings') \cup (bookings' \ bookings) :
                 b.room_id = A )
            => \A B \in DOMAIN rooms \ {A}, q \in Ranges :
                  /\ rooms_reserved(bookings', B, q[1], q[2])
                        = rooms_reserved(bookings, B, q[1], q[2])
                  /\ rooms_left(rooms', bookings', B, q[1], q[2])
                        = rooms_left(rooms, bookings, B, q[1], q[2])
                  /\ B \in rooms_ids_for_booking(rooms', bookings', q[1], q[2],
                                                 rooms'[B].hotel_id)
                        <=> B \in rooms_ids_for_booking(rooms, bookings, q[1],
                                                       q[2], rooms[B].hotel_id)]_vars

(* Rooms 1 and 2 of hotel 1 both hold a booking on day 0, and the request
   for room 2 was admitted after room 1 was full. *)
C29_Witness ==
    /\ outcome[SeqClient] = "Admitted"
    /\ \E a \in bookings, b \in bookings :
          /\ a.room_id = 1 /\ b.room_id = 2 /\ a.id < b.id
          /\ a.date_from = 0 /\ b.date_from = 0
    /\ rooms[1].hotel_id = rooms[2].hotel_id

(* C23: a registration with a fresh valid email and a password of 8
   characters is answered 200 and stores the user; a registration with an
   email that is already registered is answered 400 and stores no second
   user; no two users share an email. *)
C23_RegisterTwice ==
    /\ [](\A u \in users, v \in users : u.email = v.email => u = v)
    /\ [][\A email \in Emails, password_length \in PasswordLengths :
            register_user(email, password_length) =>
               /\ ( /\ UserRequestAdd(email, password_length)
                    /\ password_length = 8
                    /\ \A u \in users : u.email # email )
                     => /\ resp_register'.status_code = 200
                        /\ \E u \in users' \ users : u.email = email
               /\ ( /\ UserRequestAdd(email, password_length)
                    /\ \E u \in users : u.email = email )
                     => /\ resp_register'.status_code = 400
                        /\ users' = users]_vars

(* C30: when create_room fails with FacilitiesNotFound, which it finds out
   after the room row was inserted, the room and its links are in the store
   neither when the request ends nor later; a room and its links enter the
   store only together, at the commit of a request that created them. *)
C30_CreateRoomAllOrNothing ==
    /\ [](/\ \A l \in rooms_facilities :
                l.room_id \in DOMAIN rooms /\ l.facility_id \in FacilityIds
           /\ create_room_call.pc \in {"idle", "done"}
                => /\ create_room_call.room = {}
                   /\ create_room_call.rooms_facilities_data = {}
           /\ \A r \in create_room_call.room : r.id \notin DOMAIN rooms)
    /\ [][/\ ( /\ create_room_call.pc = "facilities"
               /\ create_room_call'.outcome = "FacilitiesNotFound" )
               => /\ create_room_call.room # {}
                  /\ create_room_call.facilities_ids \ FacilityIds # {}
                  /\ rooms' = rooms
                  /\ rooms_facilities' = rooms_facilities
                  /\ create_room_call'.room = {}
                  /\ \A r \in create_room_call.room : r.id < rooms_id_seq'
          /\ (rooms' # rooms \/ rooms_facilities' # rooms_facilities)
               => /\ create_room_commit
                  /\ create_room_call.facilities_ids \subseteq FacilityIds
                  /\ DOMAIN rooms' =
                        DOMAIN rooms \cup {r.id : r \in create_room_call.room}
                  /\ rooms_facilities' \ rooms_facilities
                        = create_room_call.rooms_facilities_data]_vars

(* A request that named a missing facility beside an existing one ended
   with FacilitiesNotFound: its room id is used up, and the store holds
   the rooms and links it held before. *)
C30_Witness ==
    /\ create_room_call.pc = "done"
    /\ create_room_call.outcome = "FacilitiesNotFound"
    /\ create_room_call.facilities_ids = {1, MissingFacilityId}
    /\ rooms_id_seq = Cardinality(RoomIds) + 2
    /\ DOMAIN rooms = RoomIds
    /\ rooms_facilities = {}

====
